---- MODULE Spec2Model ----
(***************************************************************************)
(* Model of toc_tool_AGT.py: PDF bookmarks -> table of contents (PDF and   *)
(* Excel) plus a cumulative master workbook.                               *)
(*                                                                         *)
(* Conventions                                                             *)
(*   - A text is a sequence of one-character strings.                      *)
(*   - Python's None is the integer Null where an integer is expected and  *)
(*     the cell NoneCell where a cell value is expected.                   *)
(*   - Lengths on the page are integers in units of 1/31750 pt, so that a  *)
(*     millimetre (72/25.4 pt) and a glyph width at 12 pt (w*12/1000 pt)   *)
(*     are both whole numbers.                                             *)
(***************************************************************************)
EXTENDS Integers, Sequences, FiniteSets, TLC

\* ------------------------------------------------------------------ bounds
\* Largest raw outline, counted in elements (nodes and sub-lists together).
MaxTokens == 6
\* Longest entry sequence handed to draw_toc_pdf in the pagination runs.
MaxItems == 34
\* Longest title handed to draw_toc_pdf in the truncation runs.
MaxTitleLen == 9
\* Longest pre-existing ledger (data rows from row 2 on).
MaxLedger == 3
\* Longest list of pending rows given to one append_master call.
MaxPending == 2
\* Number of append_master calls in a ledger run.
MaxCalls == 2
\* Number of source files the input directory holds.
MaxFiles == 2
\* Number of times the Start button is pressed.
MaxRuns == 2

\* ------------------------------------------------------------- basic values
Null == 0 - 1

Chars == {" ", "i", "W"}

RECURSIVE Spaces(_)
Spaces(n) == IF n <= 0 THEN <<>> ELSE <<" ">> \o Spaces(n - 1)

\* str.strip(): leading and trailing white space removed
RECURSIVE lstrip(_)
lstrip(s) == IF Len(s) > 0 /\ s[1] = " " THEN lstrip(Tail(s)) ELSE s

RECURSIVE rstrip(_)
rstrip(s) ==
    IF Len(s) > 0 /\ s[Len(s)] = " " THEN rstrip(SubSeq(s, 1, Len(s) - 1)) ELSE s

strip(s) == rstrip(lstrip(s))

\* ---------------------------------------------------------- raw outlines
\* An element of reader.outline: a destination object (a node) or a list.
Node(title, dest) == [isList |-> FALSE, title |-> title, dest |-> dest, items |-> <<>>]
List(elems) == [isList |-> TRUE, title |-> <<>>, dest |-> Null, items |-> elems]

\* The nodes outlines are built from: one whose page resolves (page index 0)
\* and one, with blanks around its title, whose page does not resolve.
NodePool == {Node(<<"W">>, 0), Node(<<" ", "i", " ">>, Null)}

RECURSIVE SeqsOfSize(_)
RECURSIVE ItemsOfSize(_)
ItemsOfSize(k) ==
    IF k = 1 THEN NodePool \cup {List(<<>>)}
    ELSE {List(s) : s \in SeqsOfSize(k - 1)}
SeqsOfSize(n) ==
    IF n = 0 THEN {<<>>}
    ELSE UNION {{<<it>> \o rest : it \in ItemsOfSize(k), rest \in SeqsOfSize(n - k)} :
                k \in 1..n}

\* Every value reader.outline can take within the bound: a list of any shape,
\* or a single object that is no list.
RawOutlines ==
    {List(s) : s \in UNION {SeqsOfSize(n) : n \in 0..(MaxTokens - 1)}} \cup NodePool

\* ------------------------------------------------------ extract_bookmarks
Entry(level, title, page) == [level |-> level, title |-> title, page |-> page]

\* reader.get_destination_page_number(it) + 1, None when it raises
page_num(it) == IF it.dest = Null THEN Null ELSE it.dest + 1

NodeEntry(it, level) == Entry(level, strip(it.title), page_num(it))

\* walk_outline without the i += 1 that steps over a sub-list already walked
RECURSIVE WalkFrom_no_skip(_, _, _)
WalkFrom_no_skip(seq, i, level) ==
    IF i > Len(seq) THEN <<>>
    ELSE IF seq[i].isList
         THEN WalkFrom_no_skip(seq[i].items, 1, level + 1)
              \o WalkFrom_no_skip(seq, i + 1, level)
         ELSE <<NodeEntry(seq[i], level)>> \o
              (IF i + 1 <= Len(seq) /\ seq[i + 1].isList
               THEN WalkFrom_no_skip(seq[i + 1].items, 1, level + 1)
                    \o WalkFrom_no_skip(seq, i + 1, level)
               ELSE WalkFrom_no_skip(seq, i + 1, level))

RECURSIVE WalkFrom(_, _, _)
WalkFrom(seq, i, level) ==
    IF i > Len(seq) THEN <<>>
    ELSE IF seq[i].isList
         THEN WalkFrom(seq[i].items, 1, level + 1) \o WalkFrom(seq, i + 1, level)
         ELSE <<NodeEntry(seq[i], level)>> \o
              (IF i + 1 <= Len(seq) /\ seq[i + 1].isList
               THEN WalkFrom(seq[i + 1].items, 1, level + 1) \o WalkFrom(seq, i + 2, level)
               ELSE WalkFrom(seq, i + 1, level))

walk_outline(seq, level) == WalkFrom(seq, 1, level)

extract_bookmarks(outlines) ==
    IF outlines.isList THEN walk_outline(outlines.items, 1)
    ELSE <<NodeEntry(outlines, 1)>>

VARIABLES raw, items, wpc

wvars == <<raw, items, wpc>>

WalkInit ==
    /\ raw \in RawOutlines
    /\ items = <<>>
    /\ wpc = "start"

Extract ==
    /\ wpc = "start"
    /\ items' = extract_bookmarks(raw)
    /\ wpc' = "done"
    /\ UNCHANGED raw

\* ------------------------------------------------------------ draw_toc_pdf
\* One point and one millimetre (reportlab.lib.units.mm = 72/25.4 pt) in page units.
pt == 31750
mm == 90000

\* reportlab.lib.pagesizes.A4 = (210*mm, 297*mm)
width == 210 * mm
height == 297 * mm

left == 25 * mm
right == 25 * mm
top == height - 25 * mm
bottom == 20 * mm
page_col_x == width - right
line_h == 7 * mm

\* The one character "…" (U+2026), written here in ASCII.
Ellipsis == "..."
Caption == <<"Inhaltsverzeichnis (aus PDF-Lesezeichen)">>

\* Glyph widths of the standard fonts in 1/1000 em (Adobe AFM).
GlyphWidth(ch, font) ==
    CASE ch = " " -> 278
      [] ch = "i" -> IF font = "Helvetica-Bold" THEN 278 ELSE 222
      [] ch = "W" -> 944
      [] ch = "." -> 278
      [] ch = Ellipsis -> 1000
      [] OTHER -> 556

\* pdfmetrics.stringWidth(s, fontname, 12): the glyph widths added up, at 12 pt
RECURSIVE SumWidths(_, _)
SumWidths(s, font) ==
    IF s = <<>> THEN 0 ELSE GlyphWidth(Head(s), font) + SumWidths(Tail(s), font)

str_width(s, font) == SumWidths(s, font) * ((12 * pt) \div 1000)

\* str(page) for a positive page number, as a text of digits
RECURSIVE Digits(_)
Digits(n) ==
    LET d == <<"0", "1", "2", "3", "4", "5", "6", "7", "8", "9">>[(n % 10) + 1]
    IN IF n < 10 THEN <<d>> ELSE Digits(n \div 10) \o <<d>>

page_str(page) == IF page = Null THEN <<>> ELSE Digits(page)

\* One c.drawString(x, y, text * times) on page `page`, with the font set at
\* that time. entry is the position in items of the entry being laid out (0 in
\* a header); times is 1 except in the dot leader (dot_char * n).
DrawString(page, x, y, font, text, times, entry, part) ==
    [op |-> "drawString", page |-> page, x |-> x, y |-> y, font |-> font,
     text |-> text, times |-> times, entry |-> entry, part |-> part]

ShowPage(page) ==
    [op |-> "showPage", page |-> page, x |-> 0, y |-> 0, font |-> "",
     text |-> <<>>, times |-> 0, entry |-> 0, part |-> "break"]

\* header(): the two header lines of a page; header_y is the cursor it returns
header_ops(page, doc_title) ==
    <<DrawString(page, left, top, "Helvetica-Bold", doc_title, 1, 0, "doc_title"),
      DrawString(page, left, top - 20 * mm, "Helvetica", Caption, 1, 0, "caption")>>

header_y == top - 20 * mm - 10 * mm

x_text(level) == left + (level - 1) * 8 * mm

fontname(level) == IF level = 1 THEN "Helvetica-Bold" ELSE "Helvetica"

max_text_width(level) == (page_col_x - 12 * mm) - x_text(level)

\* the truncation loop without its width test: every long title is cut
RECURSIVE Shrink_no_width_test(_, _, _)
Shrink_no_width_test(t, font, maxw) ==
    IF Len(t) > 6 THEN Shrink_no_width_test(SubSeq(t, 1, Len(t) - 2), font, maxw) ELSE t

\* while str_width(t) > max_text_width and len(t) > 6: t = t[:-2]
RECURSIVE Shrink(_, _, _)
Shrink(t, font, maxw) ==
    IF str_width(t, font) > maxw /\ Len(t) > 6
    THEN Shrink(SubSeq(t, 1, Len(t) - 2), font, maxw)
    ELSE t

truncate_title(title, level) ==
    LET t == Shrink(title, fontname(level), max_text_width(level))
    IN IF t # title THEN rstrip(t) \o <<Ellipsis>> ELSE t

\* the page-break test with the sign of line_h slipped
needs_break_sign_slip(y) == y < bottom - line_h

\* if y < bottom + line_h: showPage, header
needs_break(y) == y < bottom + line_h

\* The drawStrings of one entry at height y: title, dot leader, page number.
entry_ops(e, k, page, y) ==
    LET t == truncate_title(e.title, e.level)
        ps == page_str(e.page)
        pw == str_width(ps, "Helvetica")
        dot_w == str_width(<<".">>, "Helvetica")
        start == x_text(e.level) + str_width(t, fontname(e.level)) + 4 * pt
        end == page_col_x - pw - 6 * pt
        n == (end - start) \div dot_w
    IN <<DrawString(page, x_text(e.level), y, fontname(e.level), t, 1, k, "title")>>
       \o (IF end > start + dot_w
           THEN <<DrawString(page, start, y, "Helvetica", <<".">>, n, k, "dots")>>
           ELSE <<>>)
       \o <<DrawString(page, page_col_x - pw, y, "Helvetica", ps, 1, k, "page")>>

\* for level, title, page in items: ... ; the canvas operations in call order
RECURSIVE DrawLoop(_, _, _, _, _, _)
DrawLoop(doc_title, its, k, page, y, log) ==
    IF k > Len(its) THEN log
    ELSE LET brk == needs_break(y)
             page1 == IF brk THEN page + 1 ELSE page
             y1 == IF brk THEN header_y ELSE y
             log1 == IF brk
                     THEN log \o <<ShowPage(page)>> \o header_ops(page1, doc_title)
                     ELSE log
         IN DrawLoop(doc_title, its, k + 1, page1, y1 - line_h,
                     log1 \o entry_ops(its[k], k, page1, y1))

draw_toc_pdf(doc_title, its) ==
    DrawLoop(doc_title, its, 1, 1, header_y, header_ops(1, doc_title))

\* The entries the pagination runs repeat, and the texts used as document titles.
EntryPool ==
    <<Entry(1, <<"W", "i">>, 1), Entry(2, <<"i", " ", "W">>, Null), Entry(3, <<"i">>, 12)>>

Stems == <<<<"W">>, <<"i">>, <<"W", "i">>, <<"i", "W">>>>

\* Titles as extract_bookmarks delivers them (stripped), up to MaxTitleLen long.
Titles == {t \in UNION {[1..n -> Chars] : n \in 0..MaxTitleLen} : strip(t) = t}

\* Levels: bold top level, and depths at which the title column is 12 mm,
\* 4 mm and -4 mm wide.
Levels == {1, 18, 19, 20}

VARIABLES doc_title, entries, canvas, dpc

dvars == <<doc_title, entries, canvas, dpc>>

\* Pagination runs: n entries, cycling through EntryPool from some offset.
DrawInit ==
    /\ doc_title \in {Stems[1], Stems[2]}
    /\ \E n \in 0..MaxItems, shift \in 0..2 :
          entries = [k \in 1..n |-> EntryPool[((k + shift) % 3) + 1]]
    /\ canvas = <<>>
    /\ dpc = "start"

\* Truncation runs: one entry of any title and level.
TitleInit ==
    /\ doc_title = Stems[1]
    /\ \E t \in Titles, l \in Levels, p \in {Null, 7} : entries = <<Entry(l, t, p)>>
    /\ canvas = <<>>
    /\ dpc = "start"

Draw ==
    /\ dpc = "start"
    /\ canvas' = draw_toc_pdf(doc_title, entries)
    /\ dpc' = "saved"
    /\ UNCHANGED <<doc_title, entries>>

\* ---------------------------------------------------------------- workbooks
\* A cell value: None, a text or an integer.
NoneCell == [t |-> "none", s |-> <<>>, n |-> 0]
StrCell(s) == [t |-> "str", s |-> s, n |-> 0]
IntCell(n) == [t |-> "int", s |-> <<>>, n |-> n]

BlankRow == <<NoneCell, NoneCell, NoneCell>>

\* any(ws.cell(r, c).value is not None for c in (1, 2, 3))
NonBlank(row) == \E c \in 1..3 : row[c] # NoneCell

\* A sheet is the sequence of its rows from row 2 on, columns 1 to 3;
\* ws.cell(r, c) of a row past max_row reads None.
RowAt(rows, r) == IF r <= Len(rows) THEN rows[r] ELSE BlankRow

\* ws.cell(r, 1..3).value = rowvals, the sheet growing up to row r
SetRow(rows, r, rowvals) ==
    [k \in 1..(IF r > Len(rows) THEN r ELSE Len(rows)) |->
        IF k = r THEN rowvals ELSE RowAt(rows, k)]

\* wb.save(): openpyxl writes a cell holding the empty text as an empty cell,
\* which loads as None
SavedCell(v) == IF v = StrCell(<<>>) THEN NoneCell ELSE v
Saved(rows) == [k \in 1..Len(rows) |-> [c \in 1..3 |-> SavedCell(rows[k][c])]]

\* The demo rows of Muster-Inhaltsverzeichnis-EXCEL.xlsx (data from row 2 on).
TemplateRows == <<<<StrCell(<<"i">>), StrCell(<<"i", "i">>), IntCell(1)>>>>

\* for r in range(2, ws.max_row + 1): for c in range(1, 4): value = None
Cleared(rows) == [k \in 1..Len(rows) |-> BlankRow]

AbsentFile == [exists |-> FALSE, rows |-> <<>>]
File(rows) == [exists |-> TRUE, rows |-> rows]

\* -------------------------------------------------------------- write_toc_excel
\* ("    " * (level - 1)) + title
indented(e) == Spaces(4 * (e.level - 1)) \o e.title

\* int(page) if page is not None else None
page_cell(page) == IF page # Null THEN IntCell(page) ELSE NoneCell

RECURSIVE WriteRows(_, _, _)
WriteRows(rows, r, vals) ==
    IF vals = <<>> THEN rows
    ELSE WriteRows(SetRow(rows, r, Head(vals)), r + 1, Tail(vals))

\* The sheet write_toc_excel saves: the template's rows cleared, then one row
\* per entry from row 2 on.
toc_sheet(doc, its) ==
    Saved(WriteRows(Cleared(TemplateRows), 1,
                    [k \in 1..Len(its) |->
                        <<StrCell(doc), StrCell(indented(its[k])), page_cell(its[k].page)>>]))

\* ------------------------------------------------------------- append_master
\* the non-blank (a, b, c) triples of the ledger, loaded when dedupe is on
existing_rows(rows, dedupe) ==
    IF dedupe THEN {rows[k] : k \in {j \in 1..Len(rows) : NonBlank(rows[j])}} ELSE {}

\* r = 2; while any(cell(r, c) is not None): r += 1
\* (the cut-off r > ws.max_row + 20000 is never reached: the row after the
\*  last one is blank)
first_empty_row(rows) ==
    CHOOSE r \in 1..(Len(rows) + 1) :
        /\ ~NonBlank(RowAt(rows, r))
        /\ \A q \in 1..(r - 1) : NonBlank(rows[q])

\* for rowvals in rows: skip when dedupe and rowvals in existing, else write
\* at row r and step r
RECURSIVE AppendLoop(_, _, _, _, _)
AppendLoop(rows, r, pending, dedupe, existing) ==
    IF pending = <<>> THEN rows
    ELSE IF dedupe /\ Head(pending) \in existing
         THEN AppendLoop(rows, r, Tail(pending), dedupe, existing)
         ELSE AppendLoop(SetRow(rows, r, Head(pending)), r + 1, Tail(pending),
                         dedupe, existing)

\* append_master(master_path, template_xlsx, rows, dedupe): the ledger file
\* afterwards, and whether the call raised (the template cannot be copied).
append_master(master_file, template_exists, pending, dedupe) ==
    IF ~master_file.exists /\ ~template_exists
    THEN [file |-> master_file, raised |-> TRUE]
    ELSE LET ws == IF master_file.exists THEN master_file.rows
                   ELSE Saved(Cleared(TemplateRows))
         IN [file |-> File(Saved(AppendLoop(ws, first_empty_row(ws), pending, dedupe,
                                            existing_rows(ws, dedupe)))),
             raised |-> FALSE]

NonBlankCount(rows) == Cardinality({k \in 1..Len(rows) : NonBlank(rows[k])})

\* Rows a ledger can hold and rows a batch can hand over (title "W").
LedgerRow(k) ==
    CASE k = 1 -> <<StrCell(<<"W">>), StrCell(<<"W">>), IntCell(1)>>
      [] k = 2 -> <<StrCell(<<"W">>), StrCell(<<" ", " ", " ", " ", "i">>), NoneCell>>
      [] OTHER -> <<StrCell(<<"W">>), StrCell(<<"i">>), IntCell(12)>>

SeqsUpTo(S, n) == UNION {[1..k -> S] : k \in 0..n}

VARIABLES master, template_exists, before, pending_rows, dedupe_arg, calls, raised

lvars == <<master, template_exists, before, pending_rows, dedupe_arg, calls, raised>>

\* Ledger runs: any ledger (gaps included) or none, then append_master calls.
LedgerInit ==
    /\ master \in {AbsentFile} \cup
                  {File(rs) : rs \in SeqsUpTo({BlankRow, LedgerRow(1), LedgerRow(2)}, MaxLedger)}
    /\ template_exists \in BOOLEAN
    /\ before = master
    /\ pending_rows = <<>>
    /\ dedupe_arg = FALSE
    /\ calls = 0
    /\ raised = FALSE

AppendMaster ==
    /\ calls < MaxCalls
    /\ \E pending \in SeqsUpTo({LedgerRow(1), LedgerRow(2), LedgerRow(3)}, MaxPending),
          dedupe \in BOOLEAN :
          LET res == append_master(master, template_exists, pending, dedupe)
          IN /\ master' = res.file
             /\ raised' = res.raised
             /\ before' = master
             /\ pending_rows' = pending
             /\ dedupe_arg' = dedupe
    /\ calls' = calls + 1
    /\ UNCHANGED template_exists

\* ------------------------------------------------------------------ run_batch
\* A source file: its outline as pypdf reads it, and what goes wrong with it:
\*   "unreadable"  PdfReader raises
\*   "pdf"         the visual document cannot be written (Canvas.save raises)
\*   "xlsx_copy"   shutil.copy to the sheet's path raises (e.g. the sheet is open)
\*   "xlsx_save"   wb.save raises after the template was copied
Doc(fault, outline) == [fault |-> fault, raw |-> outline]

\* What the try block of one loop iteration does to file k of this run:
\* what happened (an exception, no entries, or both outputs written), the
\* visual document and the sheet it leaves behind, and the entries.
absent_out == [run |-> 0, ops |-> <<>>, rows |-> <<>>]
pdf_out(runno, ops) == [run |-> runno, ops |-> ops, rows |-> <<>>]
xlsx_out(runno, rows) == [run |-> runno, ops |-> <<>>, rows |-> rows]

try_file(doc, stem, tmpl, runno, old_pdf, old_xlsx) ==
    IF doc.fault = "unreadable"
    THEN [what |-> "raised", pdf |-> old_pdf, xlsx |-> old_xlsx, its |-> <<>>]
    ELSE LET its == extract_bookmarks(doc.raw)
         IN IF its = <<>>
            THEN [what |-> "empty", pdf |-> old_pdf, xlsx |-> old_xlsx, its |-> its]
            ELSE IF doc.fault = "pdf"
            THEN [what |-> "raised", pdf |-> old_pdf, xlsx |-> old_xlsx, its |-> its]
            ELSE LET pdf == pdf_out(runno, draw_toc_pdf(stem, its))
                 IN IF ~tmpl \/ doc.fault = "xlsx_copy"
                    THEN [what |-> "raised", pdf |-> pdf, xlsx |-> old_xlsx, its |-> its]
                    ELSE IF doc.fault = "xlsx_save"
                    THEN [what |-> "raised", pdf |-> pdf,
                          xlsx |-> xlsx_out(runno, TemplateRows), its |-> its]
                    ELSE [what |-> "done", pdf |-> pdf,
                          xlsx |-> xlsx_out(runno, toc_sheet(stem, its)), its |-> its]

\* (doc_title, ("    " * (level - 1)) + title, int(page) if page else None)
master_row(stem, e) ==
    <<StrCell(stem), StrCell(indented(e)),
      IF e.page # Null /\ e.page # 0 THEN IntCell(e.page) ELSE NoneCell>>

\* an except clause that swallows the error without counting it
count_err_uncounted(n, what) == n

\* except Exception: err += 1
count_err(n, what) == IF what = "raised" THEN n + 1 ELSE n

\* ok += 1 at the end of the try block
count_ok(n, what) == IF what = "done" THEN n + 1 ELSE n

\* on_start without its template check
template_missing_unchecked(tmpl) == FALSE

\* if not self.template_xlsx.exists()
template_missing(tmpl) == ~tmpl

VARIABLES files, dedupe_master, out_pdf, out_xlsx, ok, err, master_rows, pos, run, bpc,
          outcome, dialog, after, master0, escaped

bvars == <<files, dedupe_master, out_pdf, out_xlsx, ok, err, master_rows, pos, run, bpc,
           outcome, dialog, after, master0, escaped>>

BatchStart ==
    /\ out_pdf = [k \in 1..Len(files) |-> absent_out]
    /\ out_xlsx = [k \in 1..Len(files) |-> absent_out]
    /\ ok = 0 /\ err = 0 /\ master_rows = <<>> /\ pos = 1 /\ run = 0
    /\ bpc = "idle" /\ outcome = <<>> /\ dialog = "" /\ after = <<>>
    /\ master0 = master /\ escaped = FALSE
    /\ before = master /\ pending_rows = <<>> /\ dedupe_arg = FALSE
    /\ calls = 0 /\ raised = FALSE

\* Outlines of the files of a batch: none, and a node with a child list.
OutlineEmpty == List(<<>>)
OutlineNested == List(<<Node(<<"W">>, 0), List(<<Node(<<" ", "i", " ">>, Null)>>)>>)
\* a single top-level bookmark whose title is blank
OutlineBlankTitle == List(<<Node(<<" ">>, Null)>>)
\* three bookmarks, yielding the rows LedgerRow(1), LedgerRow(2), LedgerRow(3)
OutlineThree ==
    List(<<Node(<<"W">>, 0), List(<<Node(<<" ", "i", " ">>, Null)>>), Node(<<"i">>, 11)>>)

DocVariants ==
    {Doc("unreadable", OutlineEmpty)} \cup
    {Doc(f, o) : f \in {"none", "pdf", "xlsx_copy", "xlsx_save"},
                 o \in {OutlineEmpty, OutlineNested}}

\* Batch runs: up to MaxFiles files of any kind, the template present or not.
BatchInit ==
    /\ files \in SeqsUpTo(DocVariants, MaxFiles)
    /\ dedupe_master \in BOOLEAN
    /\ template_exists \in BOOLEAN
    /\ master \in {AbsentFile, File(<<LedgerRow(1)>>)}
    /\ BatchStart

\* Repeated runs on one sound document with dedupe on, over any ledger.
TwiceInit ==
    /\ files \in {<<Doc("none", o)>> :
                    o \in {OutlineEmpty, OutlineNested, OutlineBlankTitle, OutlineThree}}
    /\ dedupe_master = TRUE
    /\ template_exists = TRUE
    /\ master \in {AbsentFile} \cup
                  {File(rs) : rs \in SeqsUpTo({BlankRow, LedgerRow(1), LedgerRow(2),
                                                LedgerRow(3)}, 2)}
    /\ BatchStart

\* App.on_start up to the first loop iteration of run_batch: the two checks,
\* then run_batch's prologue (the output directory is taken to be creatable,
\* and the template neither appears nor vanishes while a batch runs).
OnStart ==
    /\ bpc = "idle"
    /\ run < MaxRuns
    /\ \E dirs_given \in BOOLEAN :
          IF ~dirs_given
          THEN /\ dialog' = "Fehlt was"
               /\ UNCHANGED <<ok, err, master_rows, pos, run, bpc, outcome>>
          ELSE IF template_missing(template_exists)
          THEN /\ dialog' = "Template fehlt"
               /\ UNCHANGED <<ok, err, master_rows, pos, run, bpc, outcome>>
          ELSE /\ dialog' = ""
               /\ ok' = 0 /\ err' = 0 /\ master_rows' = <<>> /\ pos' = 1
               /\ outcome' = <<>>
               /\ run' = run + 1
               /\ bpc' = "loop"
    /\ UNCHANGED <<files, dedupe_master, out_pdf, out_xlsx, after, master0, escaped,
                   lvars>>

\* One iteration of for pdf_path in iter_pdfs(...): the whole try/except.
ProcessFile ==
    /\ bpc = "loop"
    /\ pos <= Len(files)
    /\ LET r == try_file(files[pos], Stems[pos], template_exists, run,
                         out_pdf[pos], out_xlsx[pos])
       IN /\ out_pdf' = [out_pdf EXCEPT ![pos] = r.pdf]
          /\ out_xlsx' = [out_xlsx EXCEPT ![pos] = r.xlsx]
          /\ master_rows' =
                IF r.what = "done"
                THEN master_rows \o [k \in 1..Len(r.its) |-> master_row(Stems[pos], r.its[k])]
                ELSE master_rows
          /\ ok' = count_ok(ok, r.what)
          /\ err' = count_err(err, r.what)
          /\ outcome' = Append(outcome, r.what)
    /\ pos' = pos + 1
    /\ UNCHANGED <<files, dedupe_master, run, bpc, dialog, after, master0, escaped, lvars>>

\* After the loop: the one append_master call, run_batch's return and
\* on_start's closing dialog.
FinishBatch ==
    /\ bpc = "loop"
    /\ pos > Len(files)
    /\ LET res == IF master_rows # <<>>
                  THEN append_master(master, template_exists, master_rows, dedupe_master)
                  ELSE [file |-> master, raised |-> FALSE]
       IN /\ master' = res.file
          /\ escaped' = res.raised
          /\ dialog' = IF res.raised THEN dialog ELSE "Fertig"
          /\ after' = Append(after, res.file)
    /\ bpc' = "idle"
    /\ UNCHANGED <<files, dedupe_master, out_pdf, out_xlsx, ok, err, master_rows, pos, run,
                   outcome, master0, template_exists, before, pending_rows, dedupe_arg,
                   calls, raised>>

WalkIdle == raw = List(<<>>) /\ items = <<>> /\ wpc = "idle"
DrawIdle == doc_title = <<>> /\ entries = <<>> /\ canvas = <<>> /\ dpc = "idle"

LedgerIdle ==
    /\ master = AbsentFile /\ template_exists = TRUE /\ before = AbsentFile
    /\ pending_rows = <<>> /\ dedupe_arg = FALSE /\ calls = 0 /\ raised = FALSE

BatchIdle ==
    /\ files = <<>> /\ dedupe_master = TRUE /\ out_pdf = <<>> /\ out_xlsx = <<>>
    /\ ok = 0 /\ err = 0 /\ master_rows = <<>> /\ pos = 1 /\ run = 0 /\ bpc = "off"
    /\ outcome = <<>> /\ dialog = "" /\ after = <<>> /\ master0 = AbsentFile
    /\ escaped = FALSE

vars == <<wvars, dvars, lvars, bvars>>

InitWalk == WalkInit /\ DrawIdle /\ LedgerIdle /\ BatchIdle
InitDraw == DrawInit /\ WalkIdle /\ LedgerIdle /\ BatchIdle
InitTitle == TitleInit /\ WalkIdle /\ LedgerIdle /\ BatchIdle
InitLedger == LedgerInit /\ WalkIdle /\ DrawIdle /\ BatchIdle
InitBatch == BatchInit /\ WalkIdle /\ DrawIdle
InitTwice == TwiceInit /\ WalkIdle /\ DrawIdle

ExtractBookmarks == Extract /\ UNCHANGED <<dvars, lvars, bvars>>
DrawTocPdf == Draw /\ UNCHANGED <<wvars, lvars, bvars>>
AppendMasterCall == AppendMaster /\ UNCHANGED <<wvars, dvars, bvars>>
StartPressed == OnStart /\ UNCHANGED <<wvars, dvars>>
BatchFile == ProcessFile /\ UNCHANGED <<wvars, dvars>>
BatchEnd == FinishBatch /\ UNCHANGED <<wvars, dvars>>

NextWalk == ExtractBookmarks
NextDraw == DrawTocPdf
NextLedger == AppendMasterCall
NextBatch == StartPressed \/ BatchFile \/ BatchEnd

SpecWalk == InitWalk /\ [][NextWalk]_vars
SpecDraw == InitDraw /\ [][NextDraw]_vars
SpecTitle == InitTitle /\ [][NextDraw]_vars
SpecLedger == InitLedger /\ [][NextLedger]_vars
SpecBatch == InitBatch /\ [][NextBatch]_vars
SpecTwice == InitTwice /\ [][NextBatch]_vars

\* ------------------------------------------------------- outline flattening
\* The nodes of a raw outline in depth-first pre-order (reference definition).
RECURSIVE NodesOf(_)
RECURSIVE NodesIn(_)
NodesOf(it) == IF it.isList THEN NodesIn(it.items) ELSE <<it>>
NodesIn(seq) == IF seq = <<>> THEN <<>> ELSE NodesOf(Head(seq)) \o NodesIn(Tail(seq))

\* a sub-list that directly follows a node / a non-empty one that does not
HasListAfterNode(seq) ==
    \E i \in 2..Len(seq) : seq[i].isList /\ ~seq[i - 1].isList /\ seq[i].items # <<>>
HasListNotAfterNode(seq) ==
    \E i \in 1..Len(seq) :
        seq[i].isList /\ seq[i].items # <<>> /\ (i = 1 \/ seq[i - 1].isList)

\* C1: for every raw outline, extract_bookmarks returns exactly one entry per
\* node and no others, in depth-first pre-order of the nodes: the k-th entry
\* carries the stripped title and the resolved page of the k-th node.
C1_FlattenPreOrder ==
    wpc = "done" =>
        LET ns == NodesOf(raw)
        IN /\ Len(items) = Len(ns)
           /\ \A k \in 1..Len(ns) :
                 /\ items[k].title = strip(ns[k].title)
                 /\ items[k].page = page_num(ns[k])

C1_Witness ==
    /\ wpc = "done"
    /\ raw.isList
    /\ HasListAfterNode(raw.items)
    /\ HasListNotAfterNode(raw.items)
    /\ Len(items) >= 3

\* C2: in the sequence extract_bookmarks returns, the level of each entry is
\* at most 1 greater than the level of the entry immediately before it.
C2_LevelStepAtMostOne ==
    wpc = "done" =>
        \A k \in 1..(Len(items) - 1) : items[k + 1].level <= items[k].level + 1

\* ------------------------------------------------------------- pagination
TitleOps == SelectSeq(canvas, LAMBDA o : o.part = "title")

IsPrefix(s, t) == Len(s) <= Len(t) /\ SubSeq(t, 1, Len(s)) = s

\* C3: every entry given to draw_toc_pdf is drawn exactly once as one line on
\* one page; the lines read page by page, top to bottom, are the entries in
\* their original order; all drawStrings of an entry share its page and
\* height; a showPage comes only after the last drawString of one entry and
\* is followed by a fresh header and then the next entry; and no line is
\* placed below the bottom margin.
C3_Pagination ==
    dpc = "saved" =>
        /\ Len(TitleOps) = Len(entries)
        /\ \A k \in 1..Len(TitleOps) :
              /\ TitleOps[k].entry = k
              /\ TitleOps[k].text = entries[k].title
              /\ TitleOps[k].y >= bottom
              /\ \A j \in 1..Len(canvas) :
                    canvas[j].entry = k =>
                        canvas[j].page = TitleOps[k].page /\ canvas[j].y = TitleOps[k].y
        /\ \A k \in 1..(Len(TitleOps) - 1) :
              \/ TitleOps[k].page < TitleOps[k + 1].page
              \/ TitleOps[k].page = TitleOps[k + 1].page /\ TitleOps[k].y > TitleOps[k + 1].y
        /\ \A j \in 1..Len(canvas) :
              canvas[j].op = "showPage" =>
                  /\ j > 1 /\ j + 3 <= Len(canvas)
                  /\ canvas[j - 1].part = "page"
                  /\ canvas[j + 1].part = "doc_title"
                  /\ canvas[j + 2].part = "caption"
                  /\ canvas[j + 3].part = "title"
                  /\ canvas[j + 3].entry = canvas[j - 1].entry + 1
                  /\ canvas[j + 3].page = canvas[j - 1].page + 1

C3_Witness ==
    /\ dpc = "saved"
    /\ \E j \in 1..Len(canvas) : canvas[j].op = "showPage"
    /\ TitleOps[Len(TitleOps)].page = 2

\* -------------------------------------------------------------- truncation
Fits(e) == str_width(e.title, fontname(e.level)) <= max_text_width(e.level)
Kept(drawn) == SubSeq(drawn, 1, Len(drawn) - 1)

\* C4 as stated: a title that fits is drawn verbatim; a title whose width
\* exceeds the available width is drawn strictly shorter, ending with the
\* ellipsis marker, and the part before the marker fits.
C4_TruncationAsStated ==
    dpc = "saved" =>
        \A k \in 1..Len(entries) :
            LET e == entries[k]
                drawn == TitleOps[k].text
            IN IF Fits(e) THEN drawn = e.title
               ELSE /\ Len(drawn) < Len(e.title)
                    /\ drawn[Len(drawn)] = Ellipsis
                    /\ str_width(Kept(drawn), fontname(e.level)) <= max_text_width(e.level)

\* C4 amended: a title that fits, or that has at most 6 characters, is drawn
\* verbatim; a title of more than 6 characters whose width exceeds the
\* available width is drawn strictly shorter, ending with the ellipsis
\* marker, the part before the marker being a prefix of the title that fits
\* or has been cut down to at most 6 characters.
C4_Truncation ==
    dpc = "saved" =>
        \A k \in 1..Len(entries) :
            LET e == entries[k]
                drawn == TitleOps[k].text
            IN IF Fits(e) \/ Len(e.title) <= 6 THEN drawn = e.title
               ELSE /\ Len(drawn) < Len(e.title)
                    /\ drawn[Len(drawn)] = Ellipsis
                    /\ IsPrefix(Kept(drawn), e.title)
                    /\ \/ str_width(Kept(drawn), fontname(e.level)) <= max_text_width(e.level)
                       \/ Len(Kept(drawn)) <= 6

\* a title cut in two rounds of the loop down to a part that fits
C4_Witness ==
    /\ dpc = "saved"
    /\ Len(entries) = 1
    /\ Len(entries[1].title) >= 9
    /\ str_width(SubSeq(entries[1].title, 1, Len(entries[1].title) - 2),
                 fontname(entries[1].level)) > max_text_width(entries[1].level)
    /\ ~Fits(entries[1])
    /\ Len(TitleOps[1].text) >= 2
    /\ TitleOps[1].text[Len(TitleOps[1].text)] = Ellipsis
    /\ Len(Kept(TitleOps[1].text)) + 4 <= Len(entries[1].title)
    /\ str_width(Kept(TitleOps[1].text), fontname(entries[1].level))
          <= max_text_width(entries[1].level)

\* ------------------------------------------------------------------ ledger
\* C6: a call of append_master on an existing ledger with dedupe disabled
\* increases the number of non-blank ledger rows by exactly the number of
\* pending rows.
C6_AppendAddsEveryRow ==
    (calls > 0 /\ before.exists /\ ~dedupe_arg /\ ~raised) =>
        NonBlankCount(master.rows) = NonBlankCount(before.rows) + Len(pending_rows)

\* C10: append_master never overwrites ledger content: every row that was
\* non-blank before the call holds the same three values after it, so that
\* a row whose values changed was blank in all three columns before.
C10_NoOverwrite ==
    (calls > 0 /\ before.exists /\ ~raised) =>
        \A r \in 1..Len(before.rows) :
            NonBlank(before.rows[r]) => RowAt(master.rows, r) = before.rows[r]

\* ------------------------------------------------------------------- batch
Count(seq, what) == Cardinality({k \in 1..Len(seq) : seq[k] = what})

\* C5: with dedupe on, a second run of run_batch over the same single source
\* document leaves the number of non-blank ledger rows as the first run left
\* it.
C5_SecondRunAddsNothing ==
    (bpc = "idle" /\ Len(after) = 2) =>
        NonBlankCount(after[2].rows) = NonBlankCount(after[1].rows)

\* C7: an error in one file adds exactly one to the failure counter, does
\* not escape run_batch and does not stop the remaining files: while the
\* batch runs, every file handled so far is classified exactly once, the
\* counters agree with what happened (err with the files that raised, ok
\* with the files rendered, neither with the files without entries), and
\* when run_batch has returned every enumerated file has been handled.
C7_EveryFileClassifiedOnce ==
    run > 0 =>
        /\ Len(outcome) = pos - 1
        /\ err = Count(outcome, "raised")
        /\ ok = Count(outcome, "done")
        /\ ok + err + Count(outcome, "empty") = Len(outcome)
        /\ ~escaped
        /\ bpc = "idle" => Len(outcome) = Len(files)

\* a file that raised, then a file that was rendered, in one finished batch
C7_Witness ==
    /\ bpc = "idle" /\ run > 0
    /\ Len(files) >= 2
    /\ outcome[1] = "raised" /\ outcome[2] = "done"
    /\ err = 1 /\ ok = 1

\* C8: for every file run_batch counts as failed, neither of that file's
\* outputs written during this run is present after the batch.
C8_NoHalfWrittenOutputs ==
    (bpc = "idle" /\ run > 0) =>
        \A k \in 1..Len(outcome) :
            outcome[k] = "raised" => out_pdf[k].run # run /\ out_xlsx[k].run # run

\* C9: when the template is absent at batch start, no source file is
\* extracted, no per-document output is written and the ledger is neither
\* created nor modified.
C9_MissingTemplateStopsBatch ==
    ~template_exists =>
        /\ run = 0 /\ bpc = "idle"
        /\ outcome = <<>>
        /\ \A k \in 1..Len(files) : out_pdf[k] = absent_out /\ out_xlsx[k] = absent_out
        /\ master = master0

\* Start pressed with both folders chosen, files waiting and no template
C9_Witness ==
    /\ ~template_exists
    /\ dialog = "Template fehlt"
    /\ Len(files) > 0
    /\ \E k \in 1..Len(files) : files[k].fault = "none" /\ files[k].raw # OutlineEmpty
====
